---- MODULE Spec2Model ----
(***************************************************************************)
(* Baby-shower guessing game (src/app.py): the guess form and its          *)
(* validation, the relational store behind the index and results routes,   *)
(* and the CSV storage helpers ensure_csv_exists / append_guess /          *)
(* read_guesses.                                                            *)
(*                                                                          *)
(* A text (a Python str) is a sequence of one-character strings, so that   *)
(* trimming, parsing, formatting and CSV quoting are computed character by *)
(* character.                                                               *)
(***************************************************************************)
EXTENDS Integers, Sequences, FiniteSets, TLC

\* ------------------------------------------------------------------ text

\* Python's None where a text may stand: no text is equal to it.
None == <<"None">>

\* The characters str.strip() removes (of those the model's texts use).
Whitespace == {" ", "\t", "\n", "\r"}

\* str.strip(): the text from its first to its last character that is no
\* whitespace.
strip(s) ==
    IF \A i \in 1..Len(s) : s[i] \in Whitespace THEN <<>>
    ELSE LET first == CHOOSE i \in 1..Len(s) :
                          s[i] \notin Whitespace /\ \A j \in 1..(i - 1) : s[j] \in Whitespace
             last == CHOOSE i \in 1..Len(s) :
                         s[i] \notin Whitespace /\ \A j \in (i + 1)..Len(s) : s[j] \in Whitespace
         IN  SubSeq(s, first, last)

DigitChars == <<"0", "1", "2", "3", "4", "5", "6", "7", "8", "9">>

Digits == {DigitChars[i] : i \in 1..Len(DigitChars)}

IsDigit(c) == c \in Digits

\* int(c) of one digit
DigitVal == [c \in Digits |-> (CHOOSE i \in 1..Len(DigitChars) : DigitChars[i] = c) - 1]

AllDigits(s) == \A i \in 1..Len(s) : IsDigit(s[i])

\* int(s) of a text of digits
RECURSIVE ParseNat(_)
ParseNat(s) ==
    IF s = <<>> THEN 0
    ELSE 10 * ParseNat(SubSeq(s, 1, Len(s) - 1)) + DigitVal[s[Len(s)]]

\* str(n) of a natural number
RECURSIVE NatText(_)
NatText(n) ==
    IF n < 10 THEN <<DigitChars[n + 1]>>
    ELSE NatText(n \div 10) \o <<DigitChars[(n % 10) + 1]>>

Repeat(c, n) == [i \in 1..n |-> c]

\* "%0<w>d" % n
ZeroPad(n, w) ==
    LET t == NatText(n)
    IN  IF Len(t) < w THEN Repeat("0", w - Len(t)) \o t ELSE t

\* s.split(sep) for a one-character separator
RECURSIVE Split(_, _)
Split(s, sep) ==
    IF \E i \in 1..Len(s) : s[i] = sep
    THEN LET i == CHOOSE k \in 1..Len(s) :
                      s[k] = sep /\ \A j \in 1..(k - 1) : s[j] # sep
         IN  <<SubSeq(s, 1, i - 1)>> \o Split(SubSeq(s, i + 1, Len(s)), sep)
    ELSE <<s>>

RECURSIVE Pow10(_)
Pow10(n) == IF n = 0 THEN 1 ELSE 10 * Pow10(n - 1)

\* ------------------------------------------------- dates, times, decimals

IsLeap(y) == (y % 4 = 0 /\ y % 100 # 0) \/ y % 400 = 0

DaysInMonth(y, m) ==
    IF m = 2 THEN (IF IsLeap(y) THEN 29 ELSE 28)
    ELSE IF m \in {4, 6, 9, 11} THEN 30 ELSE 31

NoDate == [ok |-> FALSE, year |-> 0, month |-> 0, day |-> 0]

\* datetime.date(y, m, d): ok = FALSE is its ValueError.
DateOfNumbers(y, m, d) ==
    IF y >= 1 /\ m \in 1..12 /\ d >= 1 /\ d <= DaysInMonth(y, m)
    THEN [ok |-> TRUE, year |-> y, month |-> m, day |-> d]
    ELSE NoDate

\* The date of the year, month and day texts p of a text split at "-".
DateOfParts(p, dtxt) ==
    IF /\ Len(p[1]) = 4 /\ AllDigits(p[1])
       /\ Len(p[2]) \in 1..2 /\ AllDigits(p[2])
       /\ Len(dtxt) \in 1..2 /\ AllDigits(dtxt)
       /\ Len(dtxt) < Len(p[3]) => Len(dtxt) = 1 /\ dtxt # <<"0">>
    THEN DateOfNumbers(ParseNat(p[1]), ParseNat(p[2]), ParseNat(dtxt))
    ELSE NoDate

\* DateField.process_formdata: datetime.strptime(s, "%Y-%m-%d").date().
\* %Y is four digits, %m one or two digits in 1..12, %d one or two digits
\* (or a space and a digit) in 1..31; the text must be consumed whole and
\* name a day of the calendar (year >= 1).  ok = FALSE is the ValueError.
ParseDate(s) ==
    LET p == Split(s, "-")
    IN  IF Len(p) # 3 THEN NoDate
        ELSE IF Len(p[3]) = 2 /\ p[3][1] = " " THEN DateOfParts(p, <<p[3][2]>>)
        ELSE DateOfParts(p, p[3])

\* date.isoformat()
DateIsoformat(d) ==
    ZeroPad(d.year, 4) \o <<"-">> \o ZeroPad(d.month, 2) \o <<"-">> \o ZeroPad(d.day, 2)

NoTime == [ok |-> FALSE, hour |-> 0, minute |-> 0]

\* datetime.time(h, m): ok = FALSE is its ValueError.
TimeOfNumbers(h, m) ==
    IF h <= 23 /\ m <= 59 THEN [ok |-> TRUE, hour |-> h, minute |-> m] ELSE NoTime

\* The time of the hour and minute texts of a text split at ":".
TimeOfParts(h, m) ==
    IF /\ Len(h) \in 1..2 /\ AllDigits(h)
       /\ Len(m) \in 1..2 /\ AllDigits(m)
    THEN TimeOfNumbers(ParseNat(h), ParseNat(m))
    ELSE NoTime

\* TimeField.process_formdata: datetime.strptime(s, "%H:%M").time(): one or
\* two digits each, the hour in 0..23, the minute in 0..59.
ParseTime(s) ==
    LET p == Split(s, ":")
    IN  IF Len(p) # 2 THEN NoTime ELSE TimeOfParts(p[1], p[2])

\* time.strftime("%H:%M")
TimeStrftime(t) == ZeroPad(t.hour, 2) \o <<":">> \o ZeroPad(t.minute, 2)

NoDecimal == [ok |-> FALSE, neg |-> FALSE, coef |-> 0, exp |-> 0]

\* The decimal of a sign and the digits before and after the point.
DecimalOfParts(neg, ip, fp) ==
    IF AllDigits(ip) /\ AllDigits(fp) /\ Len(ip) + Len(fp) >= 1
    THEN [ok |-> TRUE, neg |-> neg, coef |-> ParseNat(ip \o fp), exp |-> 0 - Len(fp)]
    ELSE NoDecimal

\* The decimal of a text with no whitespace around it.
DecimalOfText(t) ==
    LET signed == t # <<>> /\ Head(t) \in {"+", "-"}
        p == Split(IF signed THEN Tail(t) ELSE t, ".")
    IN  IF Len(p) > 2 THEN NoDecimal
        ELSE DecimalOfParts(signed /\ Head(t) = "-", p[1], IF Len(p) = 2 THEN p[2] ELSE <<>>)

\* DecimalField.process_formdata: decimal.Decimal(s) for the texts made of
\* whitespace, a sign, digits and a point: surrounding whitespace is
\* dropped, the value is (-1)^neg * coef * 10^exp, and the number of
\* fraction digits written is kept in exp.  ok = FALSE is InvalidOperation.
ParseDecimal(s) == DecimalOfText(strip(s))

\* The digits c of a coefficient with the point placed by exp: scientific
\* notation once more than six zeros would follow the point.
PlacePoint(c, exp, leftdigits) ==
    IF leftdigits <= -6
    THEN <<Head(c)>> \o (IF Len(c) > 1 THEN <<".">> \o Tail(c) ELSE <<>>)
         \o <<"E", "-">> \o NatText(1 - leftdigits)
    ELSE IF exp = 0 THEN c
    ELSE IF leftdigits <= 0 THEN <<"0", ".">> \o Repeat("0", 0 - leftdigits) \o c
    ELSE SubSeq(c, 1, leftdigits) \o <<".">> \o SubSeq(c, leftdigits + 1, Len(c))

DecimalDigits(c, d) ==
    (IF d.neg THEN <<"-">> ELSE <<>>) \o PlacePoint(c, d.exp, d.exp + Len(c))

\* str(Decimal): the sign, and the coefficient without leading zeros.
DecimalStr(d) == DecimalDigits(NatText(d.coef), d)

\* d < n and d > n for a parsed decimal d and a natural number n
DecimalLess(d, n) ==
    IF d.neg THEN d.coef # 0 \/ n > 0
    ELSE d.coef < n * Pow10(0 - d.exp)

DecimalGreater(d, n) == ~d.neg /\ d.coef > n * Pow10(0 - d.exp)

\* ---------------------------------------------------------- configuration

H_timestamp == <<"t", "i", "m", "e", "s", "t", "a", "m", "p">>
H_guest_name == <<"g", "u", "e", "s", "t", "_", "n", "a", "m", "e">>
H_baby_name == <<"b", "a", "b", "y", "_", "n", "a", "m", "e">>
H_gender == <<"g", "e", "n", "d", "e", "r">>
H_due_date == <<"d", "u", "e", "_", "d", "a", "t", "e">>
H_due_time == <<"d", "u", "e", "_", "t", "i", "m", "e">>
H_weight_kg == <<"w", "e", "i", "g", "h", "t", "_", "k", "g">>

CSV_HEADERS ==
    <<H_timestamp, H_guest_name, H_baby_name, H_gender, H_due_date, H_due_time,
      H_weight_kg>>

\* ------------------------------------------------------------- csv module

RECURSIVE CsvEscape(_)
\* The writer doubles every quote character of a quoted field.
CsvEscape(s) ==
    IF s = <<>> THEN <<>>
    ELSE (IF Head(s) = "\"" THEN <<"\"", "\"">> ELSE <<Head(s)>>) \o CsvEscape(Tail(s))

\* A writer that never quotes a field.
CsvFieldUnquoted(s, alone) == s

\* QUOTE_MINIMAL: a field is quoted when it holds the delimiter, the quote
\* character or a character of the line terminator; a lone empty field is
\* written as "".
CsvField(s, alone) ==
    IF (\E i \in 1..Len(s) : s[i] \in {",", "\"", "\r", "\n"}) \/ (alone /\ s = <<>>)
    THEN <<"\"">> \o CsvEscape(s) \o <<"\"">>
    ELSE s

RECURSIVE CsvJoin(_, _)
CsvJoin(row, alone) ==
    IF row = <<>> THEN <<>>
    ELSE IF Len(row) = 1 THEN CsvField(row[1], alone)
    ELSE CsvField(row[1], FALSE) \o <<",">> \o CsvJoin(Tail(row), FALSE)

\* csv.writer(f).writerow(row): the text written to f
CsvWriterow(row) == CsvJoin(row, Len(row) = 1) \o <<"\r", "\n">>

\* csv.reader over a file opened with newline="": the parser's states are
\* START_RECORD, START_FIELD, IN_FIELD, IN_QUOTED_FIELD,
\* QUOTE_IN_QUOTED_FIELD and AFTER_CR (a "\n" after "\r" belongs to the same
\* line end).  An empty line gives the empty row.  CsvStep is the parser's
\* step on the character c from [st, fld, row, rows]: its state, the field
\* and the row it is reading, the rows it has read.
CsvStep(p, c) ==
    LET eol == c \in {"\r", "\n"}
        afterEol == IF c = "\r" THEN "AFTER_CR" ELSE "START_RECORD"
        To(st, fld, row, rows) == [st |-> st, fld |-> fld, row |-> row, rows |-> rows]
    IN  CASE p.st = "AFTER_CR" /\ c = "\n" ->
                To("START_RECORD", <<>>, <<>>, p.rows)
          [] p.st \in {"START_RECORD", "AFTER_CR"} /\ c # "\n" /\ eol ->
                To(afterEol, <<>>, <<>>, Append(p.rows, <<>>))
          [] p.st = "START_RECORD" /\ c = "\n" ->
                To(afterEol, <<>>, <<>>, Append(p.rows, <<>>))
          [] p.st \in {"START_RECORD", "AFTER_CR", "START_FIELD"} /\ ~eol /\ c = "\"" ->
                To("IN_QUOTED_FIELD", <<>>, p.row, p.rows)
          [] p.st \in {"START_RECORD", "AFTER_CR", "START_FIELD"} /\ ~eol /\ c = "," ->
                To("START_FIELD", <<>>, Append(p.row, <<>>), p.rows)
          [] p.st \in {"START_RECORD", "AFTER_CR", "START_FIELD"} /\ ~eol
                /\ c \notin {"\"", ","} ->
                To("IN_FIELD", <<c>>, p.row, p.rows)
          [] p.st \in {"START_FIELD", "IN_FIELD", "QUOTE_IN_QUOTED_FIELD"} /\ eol ->
                To(afterEol, <<>>, <<>>, Append(p.rows, Append(p.row, p.fld)))
          [] p.st \in {"IN_FIELD", "QUOTE_IN_QUOTED_FIELD"} /\ c = "," ->
                To("START_FIELD", <<>>, Append(p.row, p.fld), p.rows)
          [] p.st = "IN_FIELD" /\ ~eol /\ c # "," ->
                To("IN_FIELD", Append(p.fld, c), p.row, p.rows)
          [] p.st = "IN_QUOTED_FIELD" /\ c = "\"" ->
                To("QUOTE_IN_QUOTED_FIELD", p.fld, p.row, p.rows)
          [] p.st = "IN_QUOTED_FIELD" /\ c # "\"" ->
                To("IN_QUOTED_FIELD", Append(p.fld, c), p.row, p.rows)
          [] p.st = "QUOTE_IN_QUOTED_FIELD" /\ c = "\"" ->
                To("IN_QUOTED_FIELD", Append(p.fld, c), p.row, p.rows)
          [] p.st = "QUOTE_IN_QUOTED_FIELD" /\ ~eol /\ c \notin {"\"", ","} ->
                To("IN_FIELD", Append(p.fld, c), p.row, p.rows)

\* The parser's steps on text[lo..hi], in order, from p.
RECURSIVE CsvParse(_, _, _, _)
CsvParse(text, lo, hi, p) ==
    IF lo > hi THEN p
    ELSE IF lo = hi THEN CsvStep(p, text[lo])
    ELSE CHOOSE q \in {CsvParse(text, (lo + hi) \div 2 + 1, hi, m) :
                          m \in {CsvParse(text, lo, (lo + hi) \div 2, p)}} : TRUE

\* list(csv.reader(f)): at the end of the text the row being read, if any,
\* is the last one.
CsvReader(text) ==
    LET p == CHOOSE q \in {CsvParse(text, 1, Len(text),
                              [st |-> "START_RECORD", fld |-> <<>>, row |-> <<>>,
                               rows |-> <<>>])} : TRUE
    IN  IF p.st \in {"START_RECORD", "AFTER_CR"} THEN p.rows
        ELSE Append(p.rows, Append(p.row, p.fld))

\* The value DictReader gives a field name the row has no field for, and
\* the key it files the fields beyond the field names under.
restval == None

restkey == None

\* dict(zip(fieldnames, row)) with DictReader's restkey and restval: of two
\* equal field names the later one's field is kept.
DictRow(fieldnames, row) ==
    LET keys == {fieldnames[i] : i \in 1..Len(fieldnames)}
        last(k) == CHOOSE i \in 1..Len(fieldnames) :
                       fieldnames[i] = k /\ \A j \in (i + 1)..Len(fieldnames) : fieldnames[j] # k
        d == [k \in keys |-> IF last(k) <= Len(row) THEN row[last(k)] ELSE restval]
    IN  IF Len(fieldnames) < Len(row)
        THEN [k \in keys \cup {restkey} |->
                 IF k = restkey THEN SubSeq(row, Len(fieldnames) + 1, Len(row)) ELSE d[k]]
        ELSE d

\* list(csv.DictReader(f)): the first row read holds the field names, the
\* empty rows after it are skipped.
DictReaderRows(text) ==
    LET all == CsvReader(text)
        IsRow(r) == r # <<>>
        rest == IF all = <<>> THEN <<>> ELSE SelectSeq(Tail(all), IsRow)
    IN  [i \in 1..Len(rest) |-> DictRow(all[1], rest[i])]

\* DictReader.fieldnames (<<>> for None and for an empty first row)
DictReaderFieldnames(text) ==
    LET all == CsvReader(text) IN IF all = <<>> THEN <<>> ELSE all[1]

\* ------------------------------------------------------------ GuessForm

GenderChoices == {<<>>, <<"B", "o", "y">>, <<"G", "i", "r", "l">>}

GuestNameMax == 80

BabyNameMax == 120

WeightMin == 0

WeightMax == 10

\* A required-field check that takes white space for data.
DataRequiredUnstripped(data) == data # <<>>

\* wtforms DataRequired: the data is truthy and, a str, not blank.
DataRequired(data) == data # <<>> /\ strip(data) # <<>>

\* wtforms Length(max=...): the length of the data as submitted.
Length(data, max) == Len(data) <= max

\* wtforms Optional: TRUE when the submitted text is blank; the field's other
\* validators are then skipped and its errors cleared.
Optional(raw) == strip(raw) = <<>>

\* A range check without the upper end.
NumberRangeNoMax(d, min, max) == d.ok /\ ~DecimalLess(d, min)

\* wtforms NumberRange(min, max) on the field's data: a parsed decimal, or
\* None (d.ok = FALSE) after a text that is no decimal.
NumberRange(d, min, max) == d.ok /\ ~DecimalLess(d, min) /\ ~DecimalGreater(d, max)

\* The errors of each field: DataRequired stops the chain when it fails;
\* Optional stops it, and clears the errors, when the field is blank.
guest_name_errors(raw) ==
    IF ~DataRequired(raw) THEN {"required"}
    ELSE IF ~Length(raw, GuestNameMax) THEN {"length"} ELSE {}

baby_name_errors(raw) ==
    IF Optional(raw) THEN {}
    ELSE IF ~Length(raw, BabyNameMax) THEN {"length"} ELSE {}

\* SelectField.pre_validate: the data is one of the choices.
gender_errors(raw) == IF raw \in GenderChoices THEN {} ELSE {"choice"}

due_date_errors(raw) ==
    IF Optional(raw) THEN {} ELSE IF ParseDate(raw).ok THEN {} ELSE {"invalid"}

due_time_errors(raw) ==
    IF Optional(raw) THEN {} ELSE IF ParseTime(raw).ok THEN {} ELSE {"invalid"}

weight_errors(raw) ==
    IF Optional(raw) THEN {}
    ELSE (IF ParseDecimal(raw).ok THEN {} ELSE {"invalid"})
         \cup (IF NumberRange(ParseDecimal(raw), WeightMin, WeightMax) THEN {} ELSE {"range"})

\* form.errors after form.validate(): <<field, error>> pairs (every field is
\* validated; FlaskForm adds the CSRF token's check).
FormErrors(form) ==
    {<<"csrf_token", e>> : e \in IF form.csrf THEN {} ELSE {"csrf"}}
    \cup {<<"guest_name", e>> : e \in guest_name_errors(form.guest_name)}
    \cup {<<"baby_name", e>> : e \in baby_name_errors(form.baby_name)}
    \cup {<<"gender", e>> : e \in gender_errors(form.gender)}
    \cup {<<"due_date", e>> : e \in due_date_errors(form.due_date)}
    \cup {<<"due_time", e>> : e \in due_time_errors(form.due_time)}
    \cup {<<"weight", e>> : e \in weight_errors(form.weight)}

\* FlaskForm.validate_on_submit(): a POST whose form validates.
validate_on_submit(form) == form.method = "POST" /\ FormErrors(form) = {}

\* datetime.utcnow().isoformat() of the clock reading t: the readings differ
\* in their seconds only, written as two digits after the "T".
utcnow_isoformat(t) == <<"T">> \o ZeroPad(t, 2)

\* The fields of a Guess built without stripping the guest's name.
GuessFieldsUnstripped(form) ==
    [guest_name |-> form.guest_name,
     baby_name |-> strip(form.baby_name),
     gender |-> form.gender,
     due_date |-> IF ParseDate(form.due_date).ok
                  THEN DateIsoformat(ParseDate(form.due_date)) ELSE <<>>,
     due_time |-> IF ParseTime(form.due_time).ok
                  THEN TimeStrftime(ParseTime(form.due_time)) ELSE <<>>,
     weight_kg |-> IF ParseDecimal(form.weight).ok
                   THEN DecimalStr(ParseDecimal(form.weight)) ELSE <<>>]

\* The fields index() takes from a validated form for the Guess it builds.
GuessFields(form) ==
    [guest_name |-> strip(form.guest_name),
     baby_name |-> strip(form.baby_name),
     gender |-> form.gender,
     due_date |-> IF ParseDate(form.due_date).ok
                  THEN DateIsoformat(ParseDate(form.due_date)) ELSE <<>>,
     due_time |-> IF ParseTime(form.due_time).ok
                  THEN TimeStrftime(ParseTime(form.due_time)) ELSE <<>>,
     weight_kg |-> IF ParseDecimal(form.weight).ok
                   THEN DecimalStr(ParseDecimal(form.weight)) ELSE <<>>]

\* ----------------------------------------------------- relational store

NoTable == [exists |-> FALSE, rows |-> {}]

\* db.create_all(): creates the table when it is missing, keeps it otherwise.
create_all(tbl) == [exists |-> TRUE, rows |-> tbl.rows]

\* The id SQLite gives the next row of an INTEGER PRIMARY KEY column.
NextId(tbl) ==
    IF tbl.rows = {} THEN 1
    ELSE 1 + (CHOOSE n \in {r.id : r \in tbl.rows} : \A r \in tbl.rows : r.id <= n)

\* An insert that replaces the rows of the table.
session_add_replacing(tbl, g) ==
    [exists |-> TRUE,
     rows |-> {[id |-> NextId(tbl), timestamp |-> g.timestamp, guest_name |-> g.guest_name,
                baby_name |-> g.baby_name, gender |-> g.gender, due_date |-> g.due_date,
                due_time |-> g.due_time, weight_kg |-> g.weight_kg]}]

\* db.session.add(g); db.session.commit()
session_add_commit(tbl, g) ==
    [exists |-> TRUE,
     rows |-> tbl.rows \cup
        {[id |-> NextId(tbl), timestamp |-> g.timestamp, guest_name |-> g.guest_name,
          baby_name |-> g.baby_name, gender |-> g.gender, due_date |-> g.due_date,
          due_time |-> g.due_time, weight_kg |-> g.weight_kg]}]

\* Guess.query.order_by(Guess.id.asc()).all()
RECURSIVE order_by_id(_)
order_by_id(rows) ==
    IF rows = {} THEN <<>>
    ELSE LET first == CHOOSE r \in rows : \A q \in rows : r.id <= q.id
         IN  <<first>> \o order_by_id(rows \ {first})

\* getattr(g, h) for a header h
getattr(g, h) ==
    CASE h = H_timestamp -> g.timestamp
      [] h = H_guest_name -> g.guest_name
      [] h = H_baby_name -> g.baby_name
      [] h = H_gender -> g.gender
      [] h = H_due_date -> g.due_date
      [] h = H_due_time -> g.due_time
      [] h = H_weight_kg -> g.weight_kg

\* results(): rows = [{h: getattr(g, h) for h in headers} for g in guesses]
ResultRows(tbl) ==
    LET guesses == order_by_id(tbl.rows)
        headers == {CSV_HEADERS[i] : i \in 1..Len(CSV_HEADERS)}
    IN  [i \in 1..Len(guesses) |-> [h \in headers |-> getattr(guesses[i], h)]]

\* ---------------------------------------------------- CSV storage helpers

\* A file is [exists, text].  open(CSV_PATH, "w"): the file is created, or
\* cut to nothing.
open_w(f) == [exists |-> TRUE, text |-> <<>>]

\* open(CSV_PATH, "a"): the file is created when missing and kept otherwise.
open_a(f) == [exists |-> TRUE, text |-> f.text]

\* The buffered text of a handle opened with "w" is written where the handle
\* stands, at the start of the file, over what is there.
write_at_start(f, t) ==
    [exists |-> TRUE,
     text |-> t \o (IF Len(f.text) > Len(t) THEN SubSeq(f.text, Len(t) + 1, Len(f.text))
                    ELSE <<>>)]

\* The buffered text of a handle opened with "a" is written at the end.
write_at_end(f, t) == [exists |-> TRUE, text |-> f.text \o t]

\* An ensure_csv_exists() that writes the header whether the file is there or
\* not.
ensure_csv_rewritten(f) == write_at_start(open_w(f), CsvWriterow(CSV_HEADERS))

\* ensure_csv_exists(), the whole call: the header is written when the file
\* is missing.
ensure_csv_exists(f) ==
    IF ~f.exists THEN write_at_start(open_w(f), CsvWriterow(CSV_HEADERS)) ELSE f

\* A row with the two names in each other's place.
GuessRowSwapped(g, t) ==
    <<utcnow_isoformat(t), g.baby_name, g.guest_name, g.gender, g.due_date, g.due_time,
      g.weight_kg>>

\* The row append_guess() writes for the record g at clock reading t.
GuessRow(g, t) ==
    <<utcnow_isoformat(t), g.guest_name, g.baby_name, g.gender, g.due_date, g.due_time,
      g.weight_kg>>

\* append_guess(...), the whole call, in an existing directory.
append_guess(f, g, t) == write_at_end(open_a(f), CsvWriterow(GuessRow(g, t)))

\* read_guesses(): (rows, headers)
read_guesses(f) ==
    IF ~f.exists THEN [rows |-> <<>>, headers |-> CSV_HEADERS]
    ELSE [rows |-> DictReaderRows(f.text),
          headers |-> IF DictReaderFieldnames(f.text) = <<>> THEN CSV_HEADERS
                      ELSE DictReaderFieldnames(f.text)]

\* ------------------------------------------------------------------ state

VARIABLES
    SHOW_RESULTS,       \* configuration: the SHOW_RESULTS flag
    RESULTS_PASSWORD,   \* configuration: the configured secret
    now,                \* the clock datetime.utcnow() reads
    table,              \* the guess table of app.db
    response,           \* the response to the last request a route handled
    dir_exists,         \* whether DATA_DIR exists
    file,               \* CSV_PATH: whether it exists, and its text
    returned,           \* what the last read_guesses() / query returned
    appended,           \* history: per store, the rows appended, in the order the appends completed
    first_call,         \* history: the first storage call made, reads aside
    pc,                 \* per process: the step it is at
    guess               \* per process: the record it has stamped and not yet stored

vars ==
    <<SHOW_RESULTS, RESULTS_PASSWORD, now, table, response, dir_exists, file,
      returned, appended, first_call, pc, guess>>

\* ----------------------------------------------------------------- bounds

\* The clock readings are 0..MaxClock.
MaxClock == 1

\* The web application stores at most MaxRows guesses.
MaxRows == 1

\* The storage calls append at most MaxAppends records.
MaxAppends == 2

\* ----------------------------------------------------------------- inputs

T_Al == <<"A", "l">>

T_Bo == <<"B", "o">>

T_Boy == <<"B", "o", "y">>

T_Girl == <<"G", "i", "r", "l">>

T_LeapDay == <<"2", "0", "2", "4", "-", "0", "2", "-", "2", "9">>

T_Time == <<"0", "9", ":", "0", "5">>

T_Weight == <<"3", ".", "5", "0">>

T_pw == <<"p", "w">>

GuestNames ==
    {<<>>, <<" ">>, <<" ", "\t">>, T_Al, <<" ">> \o T_Al \o <<" ">>,
     Repeat("A", GuestNameMax), Repeat("A", GuestNameMax + 1),
     T_Al \o Repeat(" ", GuestNameMax - 1)}

BabyNames ==
    {<<>>, <<" ">>, T_Bo, <<" ">> \o T_Bo, Repeat("b", BabyNameMax + 1)}

Genders == {<<>>, T_Boy, T_Girl, <<"b", "o", "y">>, <<" ">> \o T_Boy}

DueDates ==
    {<<>>, T_LeapDay, <<"2", "0", "2", "4", "-", "2", "-", "9">>,
     <<"2", "0", "2", "3", "-", "0", "2", "-", "2", "9">>, <<" ">> \o T_LeapDay, <<"x">>}

DueTimes ==
    {<<>>, T_Time, <<"9", ":", "5">>, <<"2", "4", ":", "0", "0">>, T_Time \o <<" ">>}

Weights ==
    {<<>>, T_Weight, <<"0">>, <<"1", "0">>, <<"-", "1">>, <<"1", "5", ".", "5">>,
     <<"0", "5">>, <<" ", "5", " ">>, <<"1", "0", ".", "0", "1">>, <<"x">>,
     <<"-", "0">>, <<"1", "0", ".", "0">>}

BaseForm ==
    [method |-> "POST", csrf |-> TRUE, guest_name |-> T_Al, baby_name |-> T_Bo,
     gender |-> T_Boy, due_date |-> T_LeapDay, due_time |-> T_Time, weight |-> T_Weight]

\* The requests to the index route: the base form with one field varied, the
\* form with every optional field left blank, a POST without a valid CSRF
\* token, and the GET that shows the form.
Forms ==
    {[BaseForm EXCEPT !.guest_name = t] : t \in GuestNames}
    \cup {[BaseForm EXCEPT !.baby_name = t] : t \in BabyNames}
    \cup {[BaseForm EXCEPT !.gender = t] : t \in Genders}
    \cup {[BaseForm EXCEPT !.due_date = t] : t \in DueDates}
    \cup {[BaseForm EXCEPT !.due_time = t] : t \in DueTimes}
    \cup {[BaseForm EXCEPT !.weight = t] : t \in Weights}
    \cup {[BaseForm EXCEPT !.baby_name = <<>>, !.gender = <<>>, !.due_date = <<>>,
                           !.due_time = <<>>, !.weight = <<>>],
          [BaseForm EXCEPT !.csrf = FALSE],
          [BaseForm EXCEPT !.method = "GET"]}

\* The secrets a request to the results route may carry (None: none).
Secrets == {None, <<>>, T_pw, <<"P", "W">>}

\* ------------------------------------------------------- the web application

\* form = GuessForm() for each request: whether it validates, its errors and
\* the fields of the Guess built from it (evaluated once for each form).
GuessForm ==
    [form \in Forms |->
        [ok |-> validate_on_submit(form),
         errors |-> IF form.method = "POST" THEN FormErrors(form) ELSE {},
         fields |-> GuessFields(form)]]

\* new_guess = Guess(timestamp=datetime.utcnow().isoformat(), ...) at clock
\* reading t.
NewGuess(form, t) ==
    [timestamp |-> utcnow_isoformat(t),
     guest_name |-> GuessForm[form].fields.guest_name,
     baby_name |-> GuessForm[form].fields.baby_name,
     gender |-> GuessForm[form].fields.gender,
     due_date |-> GuessForm[form].fields.due_date,
     due_time |-> GuessForm[form].fields.due_time,
     weight_kg |-> GuessForm[form].fields.weight_kg]

NoResponse == [kind |-> "none", errors |-> {}, rows |-> <<>>, secret |-> None]

\* index(): the whole handler of one GET or POST of the form.
index(form) ==
    /\ IF GuessForm[form].ok
       THEN /\ Cardinality(table.rows) < MaxRows
            /\ table' = session_add_commit(table, NewGuess(form, now))
            /\ response' = [NoResponse EXCEPT !.kind = "redirect_thanks"]
       ELSE /\ table' = table
            /\ response' = [NoResponse EXCEPT !.kind = "render_index",
                               !.errors = GuessForm[form].errors]
    /\ UNCHANGED <<SHOW_RESULTS, RESULTS_PASSWORD, now, dir_exists, file, returned,
                   appended, first_call, pc, guess>>

\* thanks()
thanks ==
    /\ response' = [NoResponse EXCEPT !.kind = "render_thanks"]
    /\ UNCHANGED <<SHOW_RESULTS, RESULTS_PASSWORD, now, table, dir_exists, file,
                   returned, appended, first_call, pc, guess>>

\* results(): the handler of a request that carries the secret given (or none).
results(secret) ==
    /\ response' = [NoResponse EXCEPT !.kind = "render_results",
                       !.rows = ResultRows(table), !.secret = secret]
    /\ UNCHANGED <<SHOW_RESULTS, RESULTS_PASSWORD, now, table, dir_exists, file,
                   returned, appended, first_call, pc, guess>>

\* Time passes.
Tick ==
    /\ now < MaxClock
    /\ now' = now + 1
    /\ UNCHANGED <<SHOW_RESULTS, RESULTS_PASSWORD, table, response, dir_exists, file,
                   returned, appended, first_call, pc, guess>>

NoFile == [exists |-> FALSE, text |-> <<>>]

\* Nothing returned: the last storage call was not a read.
NoReturn ==
    [current |-> FALSE, csv |-> [rows |-> <<>>, headers |-> <<>>],
     db |-> [raised |-> FALSE, rows |-> <<>>]]

NoAppends == [csv |-> <<>>, db |-> <<>>]

\* The values of the variables a specification does not use.
Idle ==
    /\ dir_exists = FALSE
    /\ file = NoFile
    /\ returned = NoReturn
    /\ appended = NoAppends
    /\ first_call = "none"
    /\ pc = <<>>
    /\ guess = <<>>

\* The configurations: a configured secret, with public mode off and on.
Configs == {[show |-> FALSE, password |-> T_pw], [show |-> TRUE, password |-> T_pw]}

\* create_app() has run: the configuration is read, db.create_all() has made
\* the table.
Init ==
    /\ \E c \in Configs : SHOW_RESULTS = c.show /\ RESULTS_PASSWORD = c.password
    /\ now = 0
    /\ table = create_all(NoTable)
    /\ response = NoResponse
    /\ Idle

\* The forms the requests of Spec carry: two valid ones, one with a blank
\* name, one with a weight out of range, and the GET.
SomeForms ==
    {BaseForm, [BaseForm EXCEPT !.gender = T_Girl], [BaseForm EXCEPT !.guest_name = <<" ">>],
     [BaseForm EXCEPT !.weight = <<"1", "5", ".", "5">>], [BaseForm EXCEPT !.method = "GET"]}

Next ==
    \/ \E form \in SomeForms : index(form)
    \/ thanks
    \/ \E secret \in Secrets : results(secret)
    \/ Tick

\* The web application, a request at a time.
Spec == Init /\ [][Next]_vars

\* ------------------------------------------------------- the submissions

FormInit ==
    /\ SHOW_RESULTS = FALSE
    /\ RESULTS_PASSWORD = <<>>
    /\ now \in 0..MaxClock
    /\ table = create_all(NoTable)
    /\ response = NoResponse
    /\ Idle

FormNext == \E form \in Forms : index(form)

\* The index route under every form of Forms, a request at a time, with the
\* default configuration, at any one reading of the clock.
FormSpec == FormInit /\ [][FormNext]_vars

\* ------------------------------------------------------- the two stores

\* The records the storage calls are given: the one index() builds from the
\* base form, one whose texts hold a comma, a quote and a line break, and
\* one that is blank but for a space.
Records ==
    {GuessForm[BaseForm].fields,
     [guest_name |-> <<"A", ",", "\"", "l">>, baby_name |-> <<"B", "\n", "o">>,
      gender |-> T_Girl, due_date |-> <<>>, due_time |-> <<>>, weight_kg |-> <<"1", "0">>],
     [guest_name |-> <<" ">>, baby_name |-> <<>>, gender |-> <<>>, due_date |-> <<>>,
      due_time |-> <<>>, weight_kg |-> <<>>]}

\* The first storage call of a run that is not a read is remembered.
FirstCall(call) == first_call' = IF first_call = "none" THEN call ELSE first_call

\* The Guess row of the record g stamped at clock reading t.
StampedGuess(g, t) ==
    [timestamp |-> utcnow_isoformat(t), guest_name |-> g.guest_name,
     baby_name |-> g.baby_name, gender |-> g.gender, due_date |-> g.due_date,
     due_time |-> g.due_time, weight_kg |-> g.weight_kg]

\* initialize: ensure_csv_exists() for the file, db.create_all() for the table.
initialize ==
    /\ dir_exists' = TRUE
    /\ file' = ensure_csv_exists(file)
    /\ table' = create_all(table)
    /\ returned' = NoReturn
    /\ FirstCall("initialize")
    /\ UNCHANGED <<SHOW_RESULTS, RESULTS_PASSWORD, now, response, appended, pc, guess>>

\* append: append_guess(...) for the file, session add and commit for the
\* table.  open(CSV_PATH, "a") raises when DATA_DIR is missing and the insert
\* raises when the table is missing: the call then changes nothing.
append(g) ==
    /\ Len(appended.csv) < MaxAppends
    /\ Len(appended.db) < MaxAppends
    /\ file' = IF dir_exists THEN append_guess(file, g, now) ELSE file
    /\ table' = IF table.exists
                THEN session_add_commit(table, StampedGuess(g, now))
                ELSE table
    /\ appended' =
          [csv |-> IF dir_exists THEN Append(appended.csv, GuessRow(g, now))
                   ELSE appended.csv,
           db |-> IF table.exists THEN Append(appended.db, GuessRow(g, now))
                  ELSE appended.db]
    /\ returned' = NoReturn
    /\ FirstCall("append")
    /\ UNCHANGED <<SHOW_RESULTS, RESULTS_PASSWORD, now, response, dir_exists, pc, guess>>

\* listAll: read_guesses() for the file, the query of results() for the
\* table, which raises when the table is missing.
listAll ==
    /\ returned' =
          [current |-> TRUE,
           csv |-> read_guesses(file),
           db |-> IF table.exists THEN [raised |-> FALSE, rows |-> ResultRows(table)]
                  ELSE [raised |-> TRUE, rows |-> <<>>]]
    /\ UNCHANGED <<SHOW_RESULTS, RESULTS_PASSWORD, now, table, response, dir_exists, file,
                   appended, first_call, pc, guess>>

\* Nothing is stored yet: no file, no table; DATA_DIR may be there already.
\* The calls of a run are made at one reading of the clock.
StoreInit ==
    /\ SHOW_RESULTS = FALSE
    /\ RESULTS_PASSWORD = <<>>
    /\ now \in 0..MaxClock
    /\ table = NoTable
    /\ response = NoResponse
    /\ dir_exists \in BOOLEAN
    /\ file = NoFile
    /\ returned = NoReturn
    /\ appended = NoAppends
    /\ first_call = "none"
    /\ pc = <<>>
    /\ guess = <<>>

StoreNext ==
    \/ initialize
    \/ \E g \in Records : append(g)
    \/ listAll

\* The flat-file store and the relational store side by side, a call at a
\* time.
StoreSpec == StoreInit /\ [][StoreNext]_vars

\* ------------------------------------------------- concurrent requests

\* The processes (threads of the server, or worker processes) at work.
Procs == {"p1", "p2"}

NoGuess == <<>>

\* Process p takes one step: it goes to the step `to`, holding the record g.
Goes(p, to, g) ==
    /\ pc' = [pc EXCEPT ![p] = to]
    /\ guess' = [guess EXCEPT ![p] = g]

\* index(), up to the Guess it builds: the form is validated and, when valid,
\* the Guess is stamped with datetime.utcnow(); an invalid form is rendered
\* again at once.
index_begin(p, form) ==
    /\ pc[p] = "idle"
    /\ IF GuessForm[form].ok
       THEN /\ Cardinality(table.rows) + Cardinality({q \in Procs : pc[q] = "commit"})
                  < MaxAppends
            /\ Goes(p, "commit", NewGuess(form, now))
            /\ response' = response
       ELSE /\ Goes(p, "idle", NoGuess)
            /\ response' = [NoResponse EXCEPT !.kind = "render_index",
                               !.errors = GuessForm[form].errors]
    /\ UNCHANGED <<SHOW_RESULTS, RESULTS_PASSWORD, now, table, dir_exists, file, returned,
                   appended, first_call>>

\* index(), from db.session.add(new_guess) on: the Guess is inserted and
\* committed, the client is sent to the thanks page.
index_commit(p) ==
    /\ pc[p] = "commit"
    /\ table' = session_add_commit(table, guess[p])
    /\ response' = [NoResponse EXCEPT !.kind = "redirect_thanks"]
    /\ Goes(p, "idle", NoGuess)
    /\ UNCHANGED <<SHOW_RESULTS, RESULTS_PASSWORD, now, dir_exists, file, returned,
                   appended, first_call>>

ConcInit ==
    /\ SHOW_RESULTS = FALSE
    /\ RESULTS_PASSWORD = <<>>
    /\ now = 0
    /\ table = create_all(NoTable)
    /\ response = NoResponse
    /\ dir_exists = FALSE
    /\ file = NoFile
    /\ returned = NoReturn
    /\ appended = NoAppends
    /\ first_call = "none"
    /\ pc = [p \in Procs |-> "idle"]
    /\ guess = [p \in Procs |-> NoGuess]

ConcNext ==
    \/ \E p \in Procs, form \in SomeForms : index_begin(p, form)
    \/ \E p \in Procs : index_commit(p)
    \/ Tick

\* The index route serving the processes' requests at the same time.
ConcSpec == ConcInit /\ [][ConcNext]_vars

\* ------------------------------------------- concurrent storage calls

\* ensure_csv_exists(), first step: os.makedirs(DATA_DIR, exist_ok=True)
ensure_makedirs(p) ==
    /\ pc[p] = "idle"
    /\ dir_exists' = TRUE
    /\ Goes(p, "check", NoGuess)
    /\ UNCHANGED <<SHOW_RESULTS, RESULTS_PASSWORD, now, table, response, file, returned,
                   appended, first_call>>

\* ensure_csv_exists(), second step: if not os.path.exists(CSV_PATH)
ensure_check(p) ==
    /\ pc[p] = "check"
    /\ Goes(p, IF file.exists THEN "idle" ELSE "open_w", NoGuess)
    /\ UNCHANGED <<SHOW_RESULTS, RESULTS_PASSWORD, now, table, response, dir_exists, file,
                   returned, appended, first_call>>

\* ensure_csv_exists(), third step: open(CSV_PATH, "w")
ensure_open(p) ==
    /\ pc[p] = "open_w"
    /\ file' = open_w(file)
    /\ Goes(p, "write_header", NoGuess)
    /\ UNCHANGED <<SHOW_RESULTS, RESULTS_PASSWORD, now, table, response, dir_exists,
                   returned, appended, first_call>>

\* ensure_csv_exists(), last step: the header row is written as the file is
\* closed.
ensure_write(p) ==
    /\ pc[p] = "write_header"
    /\ file' = write_at_start(file, CsvWriterow(CSV_HEADERS))
    /\ Goes(p, "idle", NoGuess)
    /\ UNCHANGED <<SHOW_RESULTS, RESULTS_PASSWORD, now, table, response, dir_exists,
                   returned, appended, first_call>>

\* append_guess(...), first step: timestamp = datetime.utcnow().isoformat()
append_stamp(p, g) ==
    /\ pc[p] = "idle"
    /\ Len(appended.csv) + Cardinality({q \in Procs : pc[q] \in {"open_a", "write_row"}})
          < MaxAppends
    /\ Goes(p, "open_a", GuessRow(g, now))
    /\ UNCHANGED <<SHOW_RESULTS, RESULTS_PASSWORD, now, table, response, dir_exists, file,
                   returned, appended, first_call>>

\* append_guess(...), second step: open(CSV_PATH, "a"), which raises when
\* DATA_DIR is missing.
append_open(p) ==
    /\ pc[p] = "open_a"
    /\ IF dir_exists
       THEN file' = open_a(file) /\ Goes(p, "write_row", guess[p])
       ELSE file' = file /\ Goes(p, "idle", NoGuess)
    /\ UNCHANGED <<SHOW_RESULTS, RESULTS_PASSWORD, now, table, response, dir_exists,
                   returned, appended, first_call>>

\* append_guess(...), last step: the row is written as the file is closed.
append_write(p) ==
    /\ pc[p] = "write_row"
    /\ file' = write_at_end(file, CsvWriterow(guess[p]))
    /\ appended' = [appended EXCEPT !.csv = Append(@, guess[p])]
    /\ Goes(p, "idle", NoGuess)
    /\ UNCHANGED <<SHOW_RESULTS, RESULTS_PASSWORD, now, table, response, dir_exists,
                   returned, first_call>>

RaceInit ==
    /\ SHOW_RESULTS = FALSE
    /\ RESULTS_PASSWORD = <<>>
    /\ now = 0
    /\ table = NoTable
    /\ response = NoResponse
    /\ dir_exists = FALSE
    /\ file = NoFile
    /\ returned = NoReturn
    /\ appended = NoAppends
    /\ first_call = "none"
    /\ pc = [p \in Procs |-> "idle"]
    /\ guess = [p \in Procs |-> NoGuess]

RaceNext ==
    \/ \E p \in Procs : ensure_makedirs(p)
    \/ \E p \in Procs : ensure_check(p)
    \/ \E p \in Procs : ensure_open(p)
    \/ \E p \in Procs : ensure_write(p)
    \/ \E p \in Procs : append_stamp(p, GuessForm[BaseForm].fields)
    \/ \E p \in Procs : append_open(p)
    \/ \E p \in Procs : append_write(p)
    \/ Tick

\* The processes calling ensure_csv_exists() and append_guess() at the same
\* time, a file operation at a time.
RaceSpec == RaceInit /\ [][RaceNext]_vars

\* ------------------------------------------------------------------ claims

\* t consists of whitespace only (or is empty).
Blank(t) == \A i \in 1..Len(t) : t[i] \in Whitespace

RECURSIVE TrimLeft(_)
TrimLeft(t) == IF t # <<>> /\ Head(t) \in Whitespace THEN TrimLeft(Tail(t)) ELSE t

RECURSIVE TrimRight(_)
TrimRight(t) ==
    IF t # <<>> /\ t[Len(t)] \in Whitespace THEN TrimRight(SubSeq(t, 1, Len(t) - 1)) ELSE t

\* t without its leading and trailing whitespace
Trim(t) == TrimRight(TrimLeft(t))

\* The number a parsed decimal stands for lies in [WeightMin, WeightMax]:
\* compared as integers scaled by the decimal's power of ten.
ValueInRange(d) ==
    LET scale == Pow10(0 - d.exp)
        v == IF d.neg THEN 0 - d.coef ELSE d.coef
    IN  WeightMin * scale <= v /\ v <= WeightMax * scale

\* The results route's rows hold record data.
HoldsData(resp) == resp.kind = "render_results" /\ resp.rows # <<>>

\* C1: when public mode is disabled, a request to the results route receives
\* record data only if the secret it supplies equals the configured secret
\* (a wrong or missing secret receives none); with public mode enabled every
\* request is authorized.
C1_ResultsGated ==
    HoldsData(response) => SHOW_RESULTS \/ response.secret = RESULTS_PASSWORD

\* The POSTs the form accepts, stated field by field: a valid CSRF token, a
\* guest name that is not blank and has at most 80 characters as submitted,
\* a baby name that is blank or has at most 120, a gender among the choices,
\* a due date and a due time that are blank or parse, a weight that is blank
\* or a decimal in [0, 10].
ValidForms ==
    {form \in Forms :
        /\ form.method = "POST" /\ form.csrf
        /\ ~Blank(form.guest_name) /\ Len(form.guest_name) <= GuestNameMax
        /\ Blank(form.baby_name) \/ Len(form.baby_name) <= BabyNameMax
        /\ form.gender \in {<<>>, T_Boy, T_Girl}
        /\ Blank(form.due_date) \/ ParseDate(form.due_date).ok
        /\ Blank(form.due_time) \/ ParseTime(form.due_time).ok
        /\ Blank(form.weight)
           \/ (ParseDecimal(form.weight).ok /\ ValueInRange(ParseDecimal(form.weight)))}

\* The trimmed input values of each form, keyed as the results rows are.
TrimmedInput ==
    [form \in Forms |->
        [h \in {CSV_HEADERS[i] : i \in 2..Len(CSV_HEADERS)} |->
            CASE h = H_guest_name -> Trim(form.guest_name)
              [] h = H_baby_name -> Trim(form.baby_name)
              [] h = H_gender -> Trim(form.gender)
              [] h = H_due_date -> Trim(form.due_date)
              [] h = H_due_time -> Trim(form.due_time)
              [] h = H_weight_kg -> Trim(form.weight)]]

\* The row of a listing without its timestamp.
Fields(row) == [h \in DOMAIN row \ {H_timestamp} |-> row[h]]

\* This step appends exactly one record to the listing.
AppendsOne ==
    /\ Len(ResultRows(table')) = Len(ResultRows(table)) + 1
    /\ SubSeq(ResultRows(table'), 1, Len(ResultRows(table))) = ResultRows(table)

\* The last record of the listing after this step.
LastListed == ResultRows(table')[Len(ResultRows(table'))]

Denotes ==
    [form \in Forms |->
        [row \in {GuessFields(f) : f \in Forms} |->
            /\ row.guest_name = Trim(form.guest_name)
            /\ row.baby_name = Trim(form.baby_name)
            /\ row.gender = form.gender
            /\ IF Blank(form.due_date) THEN row.due_date = <<>>
               ELSE Len(row.due_date) = 10 /\ ParseDate(row.due_date) = ParseDate(form.due_date)
            /\ IF Blank(form.due_time) THEN row.due_time = <<>>
               ELSE Len(row.due_time) = 5 /\ ParseTime(row.due_time) = ParseTime(form.due_time)
            /\ IF Blank(form.weight) THEN row.weight_kg = <<>>
               ELSE ParseDecimal(row.weight_kg) = ParseDecimal(form.weight)]]

\* The fields of a row of the listing, as a record.
AsRecord(row) ==
    [guest_name |-> row[H_guest_name], baby_name |-> row[H_baby_name],
     gender |-> row[H_gender], due_date |-> row[H_due_date],
     due_time |-> row[H_due_time], weight_kg |-> row[H_weight_kg]]

C3_BlankGuestNameRejected ==
    [][\A form \in Forms :
          (form.method = "POST" /\ Blank(form.guest_name) /\ index(form)) =>
             /\ response'.kind = "render_index"
             /\ <<"guest_name", "required">> \in response'.errors
             /\ ResultRows(table') = ResultRows(table)]_vars

\* C3's case: a blank guest name was refused while the store held a record.
C3_Witness ==
    /\ response.kind = "render_index"
    /\ <<"guest_name", "required">> \in response.errors
    /\ table.rows # {}

\* The POSTs whose weight is a number outside [0, 10].
OutOfRangeForms ==
    {form \in Forms :
        /\ form.method = "POST"
        /\ ParseDecimal(form.weight).ok
        /\ ~ValueInRange(ParseDecimal(form.weight))}

\* The POSTs whose weight is the boundary value 0 or 10.
BoundaryForms ==
    {form \in Forms : form.method = "POST" /\ Trim(form.weight) \in {<<"0">>, <<"1", "0">>}}

\* C4: a numeric weight outside [0, 10] makes the submit fail and nothing is
\* persisted; the boundary values 0 and 10 are accepted; every persisted
\* weight_kg is empty or a number within [0, 10].
C4_WeightWithinRange ==
    /\ [](\A r \in table.rows :
            r.weight_kg = <<>>
            \/ (ParseDecimal(r.weight_kg).ok /\ ValueInRange(ParseDecimal(r.weight_kg))))
    /\ [][/\ \A form \in OutOfRangeForms :
                index(form) =>
                   /\ response'.kind = "render_index"
                   /\ <<"weight", "range">> \in response'.errors
                   /\ ResultRows(table') = ResultRows(table)
          /\ \A form \in BoundaryForms :
                index(form) =>
                   /\ response'.kind = "redirect_thanks"
                   /\ LastListed[H_weight_kg] = Trim(form.weight)]_vars

\* C4's case: the boundary weight 10 is stored and a weight out of range
\* was refused.
C4_Witness ==
    /\ \E r \in table.rows : r.weight_kg = <<"1", "0">>
    /\ response.kind = "render_index"
    /\ response.errors = {<<"weight", "range">>}

\* The record a row of seven fields stands for, keyed by the headers.
RowRecord(row) ==
    [h \in {CSV_HEADERS[i] : i \in 1..Len(CSV_HEADERS)} |->
        row[CHOOSE i \in 1..Len(CSV_HEADERS) : CSV_HEADERS[i] = h]]

Listed(rows) == [i \in 1..Len(rows) |-> RowRecord(rows[i])]

IsPrefix(s, t) == Len(s) <= Len(t) /\ SubSeq(t, 1, Len(s)) = s

\* What a listAll made now would return, as far as it returns.
ListedNow ==
    returned.current =>
        /\ returned.csv.rows = Listed(appended.csv)
        /\ ~returned.db.raised => returned.db.rows = Listed(appended.db)

\* A storage call keeps what listAll returned before it, in place.
KeepsListed ==
    /\ IsPrefix(read_guesses(file).rows, read_guesses(file').rows)
    /\ IsPrefix(ResultRows(table), ResultRows(table'))

\* C5, as claimed: in both stores listAll returns the records appended, once
\* each and in the order the appends completed (none when nothing was
\* appended), and no storage call removes, moves or changes a record listAll
\* returned before.
C5_ListsAppendedInOrder == []ListedNow /\ [][KeepsListed]_vars

\* C5, amended: the same, for runs in which initialize is called before the
\* first append.
C5_ListsAppendedAfterInitialize ==
    /\ [](first_call = "initialize" =>
            /\ ListedNow
            /\ returned.current => ~returned.db.raised)
    /\ [][KeepsListed]_vars

\* Both stores were initialized first and have listed two different records.
C5_Witness ==
    /\ first_call = "initialize" /\ returned.current
    /\ Len(returned.csv.rows) = 2 /\ Len(returned.db.rows) = 2
    /\ returned.csv.rows[1] # returned.csv.rows[2]
    /\ returned.db.rows[1][H_guest_name] # returned.db.rows[2][H_guest_name]

\* The number of lines of a text whose lines each end with a line break
\* ("\r\n" is one line break).
Lines(text) ==
    Cardinality({i \in 1..Len(text) :
                    \/ text[i] = "\n"
                    \/ text[i] = "\r" /\ (i = Len(text) \/ text[i + 1] # "\n")})

\* The file holds the header and then the records appended, in order, and
\* nothing else.
HeaderThenRecords == CsvReader(file.text) = <<CSV_HEADERS>> \o appended.csv

\* ensure_csv_exists() called again leaves the file as it is.
EnsureAgain == first_call = "initialize" /\ initialize => file' = file

\* C7, as claimed: in a run of the flat-file store that starts with
\* ensure_csv_exists the file is one header line and one line for each
\* appended record, in append order, and a further ensure_csv_exists leaves
\* the file unchanged.
C7_HeaderLineThenRecordLines ==
    /\ [](first_call = "initialize" =>
            HeaderThenRecords /\ Lines(file.text) = 1 + Len(appended.csv))
    /\ [][EnsureAgain]_vars

\* C7, amended: in such a run the file is one header row and one CSV row for
\* each appended record, in append order (a row spans more than one line when
\* a field holds a line break), and a further ensure_csv_exists leaves the
\* file unchanged.
C7_HeaderRowThenRecordRows ==
    /\ [](first_call = "initialize" => HeaderThenRecords)
    /\ [][EnsureAgain]_vars

\* The run started with ensure_csv_exists and the file holds two records.
C7_Witness ==
    /\ first_call = "initialize" /\ Len(appended.csv) = 2 /\ Len(CsvReader(file.text)) = 3
    /\ ~returned.current

\* The row read holds, under their headers, the six texts of the row appended.
ReadBack(read, row) ==
    \A k \in 2..Len(CSV_HEADERS) :
        CSV_HEADERS[k] \in DOMAIN read /\ read[CSV_HEADERS[k]] = row[k]

\* read_guesses() has returned a row for every record append_guess() wrote.
RoundTrip ==
    \A i \in 1..Len(appended.csv) :
        \E j \in 1..Len(returned.csv.rows) : ReadBack(returned.csv.rows[j], appended.csv[i])

\* The file begins with the header row.
HeaderFirst == file.exists /\ DictReaderFieldnames(file.text) = CSV_HEADERS

\* C8, as claimed: whatever the file was when append_guess was called (absent,
\* header only, earlier records), read_guesses afterwards returns, for every
\* record appended, a row with exactly the six texts given to append_guess.
C8_RoundTripFromAnyFile == returned.current => RoundTrip

\* C8, amended: the same when the file begins with the header row (written by
\* ensure_csv_exists before the first append_guess); the i-th row returned is
\* then the i-th record appended.
C8_RoundTripAfterHeader ==
    returned.current /\ HeaderFirst =>
        /\ RoundTrip
        /\ Len(returned.csv.rows) = Len(appended.csv)
        /\ \A i \in 1..Len(appended.csv) : ReadBack(returned.csv.rows[i], appended.csv[i])

\* A record whose texts hold a comma, a quote and a line break was appended
\* after the header and read back.
C8_Witness ==
    /\ returned.current /\ HeaderFirst
    /\ \E i \in 1..Len(appended.csv) :
          /\ \E k \in 1..Len(appended.csv[i][2]) : appended.csv[i][2][k] = "\""
          /\ \E k \in 1..Len(appended.csv[i][3]) : appended.csv[i][3][k] = "\n"
          /\ returned.csv.rows[i][H_guest_name] = appended.csv[i][2]

\* C9, as claimed: on the same calls the flat-file store and the relational
\* store return the same records from every listAll.
C9_StoresAgree == returned.current => returned.csv.rows = returned.db.rows

\* C9, amended: they do when initialize is called before the first append:
\* both stores then take every append and return the same records from every
\* listAll, without raising.
C9_StoresAgreeAfterInitialize ==
    first_call = "initialize" =>
        /\ appended.csv = appended.db
        /\ returned.current =>
              ~returned.db.raised /\ returned.csv.rows = returned.db.rows
                 /\ returned.csv.headers = CSV_HEADERS

\* Both stores, initialized first, have returned the same two records, the
\* one with a comma, a quote and a line break first.
C9_Witness ==
    /\ first_call = "initialize" /\ returned.current
    /\ Len(returned.db.rows) = 2 /\ returned.csv.rows = returned.db.rows
    /\ returned.db.rows[1][H_baby_name] = <<"B", "\n", "o">>
    /\ returned.db.rows[2][H_baby_name] = T_Bo

\* The clock reading a timestamp was taken at.
StampOf(ts) == ParseNat(Tail(ts))

\* C6: the timestamps of the stored records never decrease in insertion
\* order (the order of the ids), also when requests are served at the same
\* time and each stamps its Guess before it inserts it.
C6_TimestampsNonDecreasing ==
    \A i, j \in 1..Len(ResultRows(table)) :
        i < j => StampOf(ResultRows(table)[i][H_timestamp])
                    <= StampOf(ResultRows(table)[j][H_timestamp])

\* The file holds the row.
InFile(f, row) == \E j \in 1..Len(CsvReader(f.text)) : CsvReader(f.text)[j] = row

\* C10: a record append_guess has written to the file is in the file in
\* every later state, however the steps of ensure_csv_exists and
\* append_guess of the processes interleave.
C10_EnsureKeepsRecords ==
    [][\A i \in 1..Len(appended.csv) :
          InFile(file, appended.csv[i]) => InFile(file', appended.csv[i])]_vars

====
